---------------------------- MODULE Spec2Model ----------------------------
(***************************************************************************)
(* A model of the pseudobinary-C decoder of src/bin/pseudobinary_c_decoder *)
(* .py: the six-bit codec, read_file_content, the block loop of             *)
(* decode_pseudobinary_c_tx, the formatter format_data_for_csv and the CSV  *)
(* sink write_to_csv; of the threaded listener of src/socket_server/        *)
(* server.py; and of two of its post-processing runs writing one CSV.       *)
(*                                                                         *)
(* Python strings are modelled as sequences of character codes, so that     *)
(* slicing, searching, replacing, formatting and lexicographic comparison   *)
(* are computed as the code computes them.                                  *)
(***************************************************************************)
EXTENDS Integers, Sequences, FiniteSets

VARIABLES
    \* --- six-bit codec harness -------------------------------------------
    cpc,              \* position of the codec harness
    x,                \* integer handed to the encoder
    width,            \* number of characters L of the group
    sixbit,           \* argument of sixbit_to_decimal
    decimal,          \* result of sixbit_to_decimal
    \* --- process_pseudobinary_file ---------------------------------------
    pc,               \* position in process_pseudobinary_file
    data,             \* decode_pseudobinary_c_tx: remaining payload
    year,             \* decode_pseudobinary_c_tx: nominal year argument
    now,              \* proleptic ordinal of the day of datetime.utcnow()
    decoded_data,     \* list built by decode_pseudobinary_c_tx
    formatted_data,   \* list returned by format_data_for_csv
    block,            \* locals of the last iteration of the block loop
    emitted,          \* history: what each appended raw sample was made of
    success,          \* value returned by process_pseudobinary_file
    input_file,       \* process_pseudobinary_file: the file to read
    station_name,     \* station name returned by process_pseudobinary_file
    \* --- CSV sink --------------------------------------------------------
    csvfile,          \* the destination file: absent, or its lines
    calls,            \* history of the write_to_csv calls made
    ret,              \* value returned by the last write_to_csv call
    \* --- threaded listener ----------------------------------------------
    active_connections,   \* SocketServer.active_connections
    max_connections,      \* SocketServer.max_connections
    listener,         \* the thread of serve_forever: position, request, local
    workers,          \* per request: position of its thread, local
    \* --- concurrent post-processing runs --------------------------------
    writers,          \* per run: position in write_to_csv and its locals
    \* --- decodeit --------------------------------------------------------
    no_archive,       \* args.no_archive
    location,         \* the directory that holds the file named by args.input
    moves             \* history: number of shutil.move calls that moved it

codecVars == <<cpc, x, width, sixbit, decimal>>
procVars  == <<pc, data, year, now, decoded_data, formatted_data, block,
               emitted, success>>
sinkVars  == <<csvfile, calls, ret>>
fileVars  == <<input_file, station_name>>
serverVars == <<active_connections, max_connections, listener, workers>>
mainVars  == <<no_archive, location, moves>>
concVars  == <<serverVars, writers, mainVars>>
vars      == <<codecVars, procVars, sinkVars, fileVars, concVars>>

-----------------------------------------------------------------------------
(* Python string primitives on sequences of character codes.               *)

Min(a, b) == IF a < b THEN a ELSE b
Abs(n) == IF n < 0 THEN -n ELSE n

\* s[a:b] with Python's clamping, for non-negative a and b (0-based).
Slice(s, a, b) ==
    LET lo == Min(a, Len(s))
        hi == Min(b, Len(s))
    IN  IF hi <= lo THEN <<>> ELSE SubSeq(s, lo + 1, hi)

\* s[a:]
SliceFrom(s, a) == Slice(s, a, Len(s))

\* s.startswith(p)
StartsWith(s, p) == Len(s) >= Len(p) /\ SubSeq(s, 1, Len(p)) = p

\* s.find(ch, start): 0-based index of the first ch at or after start, or -1.
Find(s, ch, start) ==
    LET hits == {i \in start..(Len(s) - 1) : s[i + 1] = ch}
    IN  IF hits = {} THEN -1
        ELSE CHOOSE i \in hits : \A j \in hits : i <= j

\* needle in s
Contains(s, needle) ==
    \E i \in 0..(Len(s) - Len(needle)) :
        SubSeq(s, i + 1, i + Len(needle)) = needle

\* s.replace(old, new), for a non-empty old: left to right, non-overlapping.
RECURSIVE Replace(_, _, _)
Replace(s, old, new) ==
    IF Len(s) < Len(old) THEN s
    ELSE IF SubSeq(s, 1, Len(old)) = old
         THEN new \o Replace(SliceFrom(s, Len(old)), old, new)
         ELSE <<s[1]>> \o Replace(Tail(s), old, new)

\* s.split(sep) for a one-character separator.
RECURSIVE Split(_, _)
Split(s, sep) ==
    LET k == Find(s, sep, 0)
    IN  IF k = -1 THEN <<s>>
        ELSE <<Slice(s, 0, k)>> \o Split(SliceFrom(s, k + 1), sep)

\* s.count(ch)
Count(s, ch) == Cardinality({i \in 1..Len(s) : s[i] = ch})

\* str(n) for an integer n.
RECURSIVE Digits(_)
Digits(n) == IF n < 10 THEN <<48 + n>> ELSE Digits(n \div 10) \o <<48 + (n % 10)>>
IntToStr(n) == IF n < 0 THEN <<45>> \o Digits(-n) ELSE Digits(n)

\* format(n, '0Wd'): sign, then the digits zero-padded to a total width of W.
RECURSIVE ZeroPad(_, _)
ZeroPad(s, w) == IF Len(s) >= w THEN s ELSE ZeroPad(<<48>> \o s, w)
FmtInt(n, w) ==
    IF n < 0 THEN <<45>> \o ZeroPad(Digits(-n), w - 1) ELSE ZeroPad(Digits(n), w)

\* s.zfill(w): zeros are inserted after a leading sign.
Zfill(s, w) ==
    IF Len(s) > 0 /\ s[1] \in {43, 45}
    THEN <<s[1]>> \o ZeroPad(Tail(s), w - 1)
    ELSE ZeroPad(s, w)

\* int(s) for a string of decimal digits.
RECURSIVE ParseInt(_)
ParseInt(s) ==
    IF s = <<>> THEN 0 ELSE 10 * ParseInt(SubSeq(s, 1, Len(s) - 1)) + (s[Len(s)] - 48)

IsDigit(c) == c \in 48..57

\* a < b for Python strings (lexicographic on the character codes).
RECURSIVE LexLess(_, _)
LexLess(a, b) ==
    IF b = <<>> THEN FALSE
    ELSE IF a = <<>> THEN TRUE
    ELSE IF a[1] /= b[1] THEN a[1] < b[1]
    ELSE LexLess(Tail(a), Tail(b))

-----------------------------------------------------------------------------
(* sixbit_to_decimal.  A result is a number, the NaN of the missing group, *)
(* or the IndexError of combined_str[0] on an empty group.                 *)

Num(n) == [kind |-> "num", val |-> n]
NaN == [kind |-> "nan", val |-> 0]
IndexError == [kind |-> "IndexError", val |-> 0]

MissingGroup == <<47, 47, 47>>          \* '///'

\* ord(ch) - 64 if ord(ch) > 63 else ord(ch)
double_val_gt64(ch) == IF ch > 64 THEN ch - 64 ELSE ch
double_val(ch) == IF ch > 63 THEN ch - 64 ELSE ch

\* format(val, '06b'): the binary digits, zero-padded to at least 6.
RECURSIVE Bits(_)
Bits(v) == IF v < 2 THEN <<v>> ELSE Bits(v \div 2) \o <<v % 2>>
RECURSIVE PadBits(_, _)
PadBits(b, w) == IF Len(b) >= w THEN b ELSE PadBits(<<0>> \o b, w)
binary_str(val) == PadBits(Bits(val), 6)

\* ''.join(binary_str) over the characters of the group
RECURSIVE combined_str(_)
combined_str(s) ==
    IF s = <<>> THEN <<>> ELSE binary_str(double_val(s[1])) \o combined_str(Tail(s))

\* int(bits, 2)
RECURSIVE BinToInt(_)
BinToInt(b) ==
    IF b = <<>> THEN 0 ELSE 2 * BinToInt(SubSeq(b, 1, Len(b) - 1)) + b[Len(b)]

bin_flipped(b) == [i \in 1..Len(b) |-> 1 - b[i]]

sixbit_to_decimal(s) ==
    IF s = MissingGroup THEN NaN
    ELSE LET c == combined_str(s)
         IN  IF c = <<>> THEN IndexError
             ELSE IF c[1] = 1 THEN Num(-(BinToInt(bin_flipped(c)) + 1))
             ELSE Num(BinToInt(c))

-----------------------------------------------------------------------------
(* Calendar arithmetic of datetime and timedelta, on proleptic Gregorian    *)
(* ordinals (January 1 of year 1 is day 1).                                 *)

IsLeap(y) == y % 4 = 0 /\ (y % 100 /= 0 \/ y % 400 = 0)

DaysBeforeYear(y) ==
    LET p == y - 1 IN 365 * p + (p \div 4) - (p \div 100) + (p \div 400)

DaysInMonth(y, m) ==
    IF m = 2 THEN (IF IsLeap(y) THEN 29 ELSE 28)
    ELSE IF m \in {4, 6, 9, 11} THEN 30 ELSE 31

RECURSIVE DaysBeforeMonth(_, _)
DaysBeforeMonth(y, m) ==
    IF m = 1 THEN 0 ELSE DaysBeforeMonth(y, m - 1) + DaysInMonth(y, m - 1)

\* datetime(y, m, d).toordinal()
Ymd2Ord(y, m, d) == DaysBeforeYear(y) + DaysBeforeMonth(y, m) + d

\* The year holding ordinal n, by the 400/100/4/1-year cycles.
YearOfOrd(n) ==
    LET n0   == n - 1
        n400 == n0 \div 146097
        r400 == n0 % 146097
        n100 == r400 \div 36524
        r100 == r400 % 36524
        n4   == r100 \div 1461
        r4   == r100 % 1461
        n1   == r4 \div 365
        y    == n400 * 400 + 1 + n100 * 100 + n4 * 4 + n1
    IN  IF n1 = 4 \/ n100 = 4 THEN y - 1 ELSE y

\* datetime.fromordinal(n) as <<year, month, day>>
Ord2Ymd(n) ==
    LET y  == YearOfOrd(n)
        dy == n - DaysBeforeYear(y)
        m  == CHOOSE k \in 1..12 :
                  /\ DaysBeforeMonth(y, k) < dy
                  /\ dy <= DaysBeforeMonth(y, k) + DaysInMonth(y, k)
    IN  <<y, m, dy - DaysBeforeMonth(y, m)>>

\* date.strftime('%m/%d/%Y')
StrfMDY(n) ==
    LET t == Ord2Ymd(n)
    IN  FmtInt(t[2], 2) \o <<47>> \o FmtInt(t[3], 2) \o <<47>> \o FmtInt(t[1], 4)

\* date.strftime('%Y-%m-%d')
StrfYMD(n) ==
    LET t == Ord2Ymd(n)
    IN  FmtInt(t[1], 4) \o <<45>> \o FmtInt(t[2], 2) \o <<45>> \o FmtInt(t[3], 2)

\* datetime.strptime(s, '%m/%d/%Y').toordinal()
StrpMDY(s) ==
    LET f == Split(s, 47) IN Ymd2Ord(ParseInt(f[3]), ParseInt(f[1]), ParseInt(f[2]))

\* (datetime(y, 1, 1) + timedelta(julian - 1)).strftime('%m/%d/%Y')
julian_to_date(julian, y) == StrfMDY(Ymd2Ord(y, 1, 1) + (julian - 1))

\* f'{sign}{hours:02d}:{remaining_minutes:02d}:{seconds:02d}'
minutes_to_time(minutes) ==
    LET sign == IF minutes < 0 THEN <<45>> ELSE <<>>
        m == Abs(minutes)
        hours == m \div 60
        remaining_minutes == m % 60
        seconds == (remaining_minutes * 60) % 60
    IN  sign \o FmtInt(hours, 2) \o <<58>> \o FmtInt(remaining_minutes, 2)
             \o <<58>> \o FmtInt(seconds, 2)

-----------------------------------------------------------------------------
(* The sensor table of decode_pseudobinary_c_tx and its scaling rules.      *)

S_PRS == <<80, 82, 83>>
S_RAD == <<82, 65, 68>>
S_RA2 == <<82, 65, 50>>
S_RA3 == <<82, 65, 51>>
S_RAS == <<82, 65, 83>>
S_ENC == <<69, 78, 67>>
S_BUB == <<66, 85, 66>>
S_BAT == <<66, 65, 84>>
S_SST == <<83, 83, 84>>
S_ATM == <<65, 84, 77>>
S_PSD == <<80, 83, 68>>
S_RSD == <<82, 83, 68>>
S_PR2 == <<80, 82, 50>>
S_SW1 == <<83, 87, 49>>
S_SW2 == <<83, 87, 50>>
S_TST == <<84, 83, 84>>
S_TS2 == <<84, 83, 50>>
S_TS3 == <<84, 83, 51>>
S_TMA == <<84, 77, 65>>
S_WAV == <<87, 65, 86>>
S_WMX == <<87, 77, 88>>
S_WDR == <<87, 68, 82>>
S_RIN == <<82, 73, 78>>
S_Avail == <<65, 118, 97, 105, 108>>
S_SW1_samples == <<83, 87, 49, 32, 115, 97, 109, 112, 108, 101, 115>>
S_SW2_samples == <<83, 87, 50, 32, 115, 97, 109, 112, 108, 101, 115>>
S_PRS_samples == <<80, 82, 83, 32, 115, 97, 109, 112, 108, 101, 115>>

sensors ==
    << S_PRS, S_RAD, S_RA2, S_RA3, S_RAS, S_ENC, S_BUB,
       S_BAT, S_SST, S_ATM, S_PSD, S_RSD, S_PR2, S_SW1,
       S_SW2, S_TST, S_TS2, S_TS3, S_TMA, S_WAV, S_WMX,
       S_WDR, S_RIN, S_Avail, S_Avail, S_Avail, S_Avail,
       S_Avail, S_Avail, S_SW1_samples, S_SW2_samples, S_PRS_samples >>

\* 'samples'
SamplesWord_counts == <<99, 111, 117, 110, 116, 115>>      \* 'counts'
SamplesWord == <<115, 97, 109, 112, 108, 101, 115>>

\* sensors[i] of a Python list: a negative index counts from the end, and an
\* index outside -len..len-1 raises IndexError (reported as <<>>).
ListIndex(list, i) ==
    IF i >= 0 /\ i < Len(list) THEN list[i + 1]
    ELSE IF i < 0 /\ i >= -Len(list) THEN list[Len(list) + i + 1]
    ELSE <<>>

\* The divisor applied by 'measurement /= ...' for the sensor (1: unscaled).
ScaleDiv(sensor) ==
    IF sensor \in {S_PRS, S_RAD, S_RA2, S_RA3, S_RAS, S_ENC, S_BUB, S_PR2,
                   S_TST, S_TS2, S_TS3} THEN 1000
    ELSE IF sensor = S_BAT THEN 10
    ELSE IF sensor = S_ATM THEN 10
    ELSE IF sensor = S_SST THEN 10
    ELSE 1

\* A scaled measurement: the number num / div, or NaN (NaN / div is NaN).
Scaled(m, sensor) ==
    IF m.kind = "nan" THEN [kind |-> "nan", num |-> 0, div |-> 1]
    ELSE [kind |-> "num", num |-> m.val, div |-> ScaleDiv(sensor)]

-----------------------------------------------------------------------------
(* decode_pseudobinary_c_tx: the block loop.                                *)

Plus == 43       \* '+'
Dot == 46        \* '.'

ChannelPrefixes == { <<67, 49, 43>>, <<67, 50, 43>>, <<67, 51, 43>>, <<67, 52, 43>> }

\* Lines 98-105: the synthetic leading "0" and the 3-character strip.
StripIdentifier(d) ==
    LET d0 == IF \E p \in ChannelPrefixes : StartsWith(d, p) THEN <<48>> \o d ELSE d
    IN  SliceFrom(d0, 3)

\* Lines 138-147 with the searches started at the current character.
NextBlockStart_from_zero(d) ==
    LET a == Find(d, Plus, 0)
        b == Find(d, Dot, 0)
    IN  IF a /= -1 THEN a ELSE IF b /= -1 THEN b ELSE Len(d)

\* Lines 138-147: the start of the next block.
NextBlockStart(d) ==
    LET a == Find(d, Plus, 8)
        b == Find(d, Dot, 8)
    IN  IF a /= -1 THEN a ELSE IF b /= -1 THEN b ELSE Len(d)

\* range(0, n, 3)
GroupStarts(n) == {i \in 0..(n - 1) : i % 3 = 0}

\* Lines 152-174: the scaled measurements of a measurement run.
DecodeMeasurements(mstr, sensor) ==
    LET starts == GroupStarts(Len(mstr))
    IN  [k \in 1..Cardinality(starts) |->
            Scaled(sixbit_to_decimal(Slice(mstr, 3 * (k - 1), 3 * (k - 1) + 3)),
                   sensor)]

\* Lines 122-124: the year-ambiguity rule on the date string.
AdjustYear(date, date_ord, day, y) ==
    IF date_ord > now /\ day >= 365
    THEN Replace(date, IntToStr(y), IntToStr(y - 1))
    ELSE date

\* Lines 176-188 with the first sample one interval before the start time.
BlockSamples_from_one(sensor, date, time_start, interval, measurements) ==
    IF Contains(sensor, SamplesWord) THEN <<>>
    ELSE [i \in 1..Len(measurements) |->
            [sensor |-> sensor,
             date |-> date,
             time |-> minutes_to_time(time_start - i * interval),
             measurement |-> measurements[i]]]

\* Lines 176-188: the raw samples appended for one block.
BlockSamples(sensor, date, time_start, interval, measurements) ==
    IF Contains(sensor, SamplesWord) THEN <<>>
    ELSE [i \in 1..Len(measurements) |->
            [sensor |-> sensor,
             date |-> date,
             time |-> minutes_to_time(time_start - (i - 1) * interval),
             measurement |-> measurements[i]]]

\* The history kept beside each appended sample.
BlockHistory(sensor, date, time_start, interval, measurements, blockno) ==
    IF Contains(sensor, SamplesWord) THEN <<>>
    ELSE [i \in 1..Len(measurements) |->
            [block |-> blockno,
             index |-> i - 1,
             minutes |-> time_start - (i - 1) * interval,
             date |-> date]]

NoBlock ==
    [n |-> 0, raised |-> FALSE, measurement_index |-> 0, day |-> 0,
     date_datetime |-> 0, date |-> <<>>, sensor |-> <<>>, time_start |-> 0,
     interval |-> 0, measurements_str |-> <<>>, measurements |-> <<>>]

\* Lines 114-191: one iteration of the loop on payload d, as the locals it
\* leaves; raised is TRUE when a statement of the iteration raised.
Iteration(d, y, prev) ==
    LET idx == d[2] - 65
        dayr == sixbit_to_decimal(Slice(d, 2, 4))
        tsr == sixbit_to_decimal(Slice(d, 4, 6))
        ivr == sixbit_to_decimal(Slice(d, 6, 8))
        nom == julian_to_date(dayr.val, y)
        sensor == ListIndex(sensors, idx)
        mstr == Slice(d, 8, NextBlockStart(d))
    IN  IF Len(d) < 2
        THEN [prev EXCEPT !.n = prev.n + 1, !.raised = TRUE]
        ELSE IF dayr.kind /= "num"
        THEN [prev EXCEPT !.n = prev.n + 1, !.raised = TRUE,
                          !.measurement_index = idx]
        ELSE IF sensor = <<>> \/ tsr.kind /= "num" \/ ivr.kind /= "num"
        THEN [prev EXCEPT !.n = prev.n + 1, !.raised = TRUE,
                          !.measurement_index = idx, !.day = dayr.val,
                          !.date_datetime = StrpMDY(nom),
                          !.date = AdjustYear(nom, StrpMDY(nom), dayr.val, y)]
        ELSE [n |-> prev.n + 1,
              raised |-> FALSE,
              measurement_index |-> idx,
              day |-> dayr.val,
              date_datetime |-> StrpMDY(nom),
              date |-> AdjustYear(nom, StrpMDY(nom), dayr.val, y),
              sensor |-> sensor,
              time_start |-> tsr.val - 1,
              interval |-> ivr.val,
              measurements_str |-> mstr,
              measurements |-> DecodeMeasurements(mstr, sensor)]

-----------------------------------------------------------------------------
(* format_data_for_csv.                                                     *)

Colon == 58      \* ':'
Minus == 45      \* '-'
UtcSuffix == <<43, 48, 48, 58, 48, 48>>      \* '+00:00'
NanText == <<110, 97, 110>>                  \* 'nan'

RECURSIVE Pow10(_)
Pow10(p) == IF p = 0 THEN 1 ELSE 10 * Pow10(p - 1)

\* "{:.Pf}".format(measurement).  The divisor of every sensor divides 10^P
\* of its precision, so the scaled value has at most P decimals.
FormatFixed(m, prec) ==
    IF m.kind = "nan" THEN NanText
    ELSE LET q == (2 * Abs(m.num) * Pow10(prec) + m.div) \div (2 * m.div)
             whole == Digits(q \div Pow10(prec))
             frac == ZeroPad(Digits(q % Pow10(prec)), prec)
         IN  (IF m.num < 0 THEN <<Minus>> ELSE <<>>)
             \o whole \o (IF prec = 0 THEN <<>> ELSE <<Dot>> \o frac)

\* Lines 229-235: the precision of the (truncated) sensor tag.
Precision(tag) ==
    IF tag \in {S_SW1, S_SW2} THEN 0
    ELSE IF tag \in {S_BAT, S_ATM, S_SST, S_RSD} THEN 1
    ELSE 3

\* Line 216: (datetime(2000, 1, 1, 0, 0) - timedelta(minutes=mm))
\*           .strftime('%H:%M:%S')
NewTime(mm) ==
    LET t == (1440 - (mm % 1440)) % 1440
    IN  FmtInt(t \div 60, 2) \o <<Colon>> \o FmtInt(t % 60, 2) \o <<Colon, 48, 48>>

\* Lines 209-212: the date of an entry whose hour token is '24'.
RollForward_same_day(date) == date
RollForward(date) == StrfMDY(StrpMDY(date) + 1)

\* Lines 203-248: one entry, as mutated in place.
FormatEntry(entry) ==
    LET time == Split(entry.time, Colon)
        time_hh == Zfill(time[1], 2)
        time_mm == time[2]
        is24 == time_hh = <<50, 52>>
        isneg == StartsWith(time_hh, <<Minus>>)
        date == IF isneg THEN StrfMDY(StrpMDY(entry.date) - 1)
                ELSE IF is24 THEN RollForward(entry.date)
                ELSE entry.date
        t1 == IF isneg THEN NewTime(ParseInt(time_mm))
              ELSE IF is24 THEN <<48, 48, Colon>> \o time[2]
              ELSE time_hh \o <<Colon>> \o time_mm
        t2 == IF Count(t1, Colon) = 1 THEN t1 \o <<Colon, 48, 48>> ELSE t1
        tag == Slice(entry.sensor, 0, 3)
    IN  [sensor |-> tag,
         time |-> StrfYMD(StrpMDY(date)) \o <<32>> \o t2 \o UtcSuffix,
         data |-> FormatFixed(entry.measurement, Precision(tag))]

\* sorted(..., key=time, reverse=True) is stable: an entry goes after the
\* entries whose key is not smaller.
RECURSIVE InsertDesc(_, _)
InsertDesc(sorted, e) ==
    IF sorted = <<>> THEN <<e>>
    ELSE IF LexLess(sorted[1].time, e.time) THEN <<e>> \o sorted
    ELSE <<sorted[1]>> \o InsertDesc(Tail(sorted), e)

RECURSIVE SortDesc(_)
SortDesc(list) ==
    IF list = <<>> THEN <<>>
    ELSE InsertDesc(SortDesc(SubSeq(list, 1, Len(list) - 1)), list[Len(list)])

MutatedEntries(decoded) == [i \in 1..Len(decoded) |-> FormatEntry(decoded[i])]

format_data_for_csv(decoded) == SortDesc(MutatedEntries(decoded))

-----------------------------------------------------------------------------
(* write_to_csv.  A file is absent, or holds a sequence of lines.           *)

AbsentFile == [exists |-> FALSE, lines |-> <<>>]
EmptyFile == [exists |-> TRUE, lines |-> <<>>]

Comma == 44
HeaderLine ==
    <<116, 105, 109, 101, Comma, 115, 101, 110, 115, 111, 114, Comma,
      100, 97, 116, 97>>                      \* 'time,sensor,data'

\* csv.DictWriter.writerow with fieldnames time, sensor, data (no field of a
\* formatted record holds a comma, a quote or a line break: nothing is quoted).
CsvRow(row) == row.time \o <<Comma>> \o row.sensor \o <<Comma>> \o row.data

CsvRows(batch) == [i \in 1..Len(batch) |-> CsvRow(batch[i])]

\* bool(f.readline().strip())
HasHeader(file) ==
    /\ Len(file.lines) > 0
    /\ \E i \in 1..Len(file.lines[1]) : file.lines[1][i] \notin {9, 10, 13, 32}

\* Lines 304-305: whether the header row is written.
WritesHeader_always(file_exists, has_header) == TRUE
WritesHeader(file_exists, has_header) == ~file_exists \/ ~has_header

\* Lines 280-282: the early return on an empty batch.
NoData_never(batch) == FALSE
NoData(batch) == batch = <<>>

\* Lines 276-316: the file and the value returned.
write_to_csv(batch, file, append_mode) ==
    IF NoData(batch) THEN [file |-> file, ret |-> FALSE]
    ELSE LET file_exists == file.exists
             has_header == file_exists /\ append_mode /\ HasHeader(file)
             kept == IF append_mode /\ file_exists THEN file.lines ELSE <<>>
             header == IF WritesHeader(file_exists, has_header)
                       THEN <<HeaderLine>> ELSE <<>>
         IN  [file |-> [exists |-> TRUE, lines |-> kept \o header \o CsvRows(batch)],
              ret |-> TRUE]

-----------------------------------------------------------------------------
(* read_file_content.  A file cannot be opened, or holds a text.            *)

\* Python's None, told apart from every string.
None == <<-1>>

UnreadableFile == [readable |-> FALSE, content |-> <<>>]
TextFile(text) == [readable |-> TRUE, content |-> text]

\* The characters str.strip() and str.split() take as whitespace.
Whitespace == {9, 10, 11, 12, 13, 28, 29, 30, 31, 32}

\* s.lstrip(), s.rstrip(), s.strip()
RECURSIVE LStrip(_)
LStrip(s) == IF s /= <<>> /\ s[1] \in Whitespace THEN LStrip(Tail(s)) ELSE s
RECURSIVE RStrip(_)
RStrip(s) ==
    IF s /= <<>> /\ s[Len(s)] \in Whitespace
    THEN RStrip(SubSeq(s, 1, Len(s) - 1)) ELSE s
Strip(s) == LStrip(RStrip(s))

\* s.split(' ', 1)
SplitFirstSpace(s) ==
    LET k == Find(s, 32, 0)
    IN  IF k = -1 THEN <<s>> ELSE <<Slice(s, 0, k), SliceFrom(s, k + 1)>>

\* s.split(): the maximal runs of characters that are not whitespace.
RECURSIVE SplitWhitespace(_)
SplitWhitespace(s) ==
    LET t == LStrip(s)
        ends == {i \in 1..Len(t) : t[i] \in Whitespace}
        k == IF ends = {} THEN Len(t) + 1
             ELSE CHOOSE i \in ends : \A j \in ends : i <= j
    IN  IF t = <<>> THEN <<>>
        ELSE <<SubSeq(t, 1, k - 1)>> \o SplitWhitespace(SubSeq(t, k, Len(t)))

\* s.rstrip('.')
RStripDots_once(s) ==
    IF s /= <<>> /\ s[Len(s)] = Dot THEN SubSeq(s, 1, Len(s) - 1) ELSE s
RECURSIVE RStripDots(_)
RStripDots(s) ==
    IF s /= <<>> /\ s[Len(s)] = Dot
    THEN RStripDots(SubSeq(s, 1, Len(s) - 1)) ELSE s

\* Lines 255-274: the pair returned; raised is TRUE when [0] of an empty
\* token list raised.
read_file_content(file) ==
    IF ~file.readable
    THEN [data |-> None, station_name |-> None, raised |-> FALSE]
    ELSE LET content == Strip(file.content)
             parts == SplitFirstSpace(content)
             tokens == IF Len(parts) > 1
                       THEN SplitWhitespace(Strip(parts[2])) ELSE <<>>
         IN  [data |-> parts[1],
              station_name |-> IF Len(parts) > 1 /\ tokens /= <<>>
                               THEN RStripDots(tokens[1]) ELSE None,
              raised |-> Len(parts) > 1 /\ tokens = <<>>]

-----------------------------------------------------------------------------
(* Bounds and inputs.                                                       *)

MaxBlocks == 2       \* blocks in a payload
MaxWrites == 3       \* write_to_csv calls in a run of the sink

\* Second characters of a block: 'A' PRS, 'H' BAT, 'N' SW1, '`' PRS samples
\* (index 31), '@' (index -1), '5' (index -12), 'a' (index 32).
SensorChars == {65, 72, 78, 96, 64, 53, 97}
\* Julian days 1, 365, 366.
DayFields == { <<64, 65>>, <<69, 109>>, <<69, 110>> }
\* Start times 6, -4, 1441, 1501.
StartFields == { <<64, 70>>, <<63, 124>>, <<86, 97>>, <<87, 93>> }
\* Intervals 6, 60.
IntervalFields == { <<64, 70>>, <<64, 124>> }
\* Measurement runs '', '@@A', '@@A@', '@@A@@', '///@@B'.
Runs ==
    { <<>>, <<64, 64, 65>>, <<64, 64, 65, 64>>, <<64, 64, 65, 64, 64>>,
      <<47, 47, 47, 64, 64, 66>> }
\* Later blocks: '+A@A@F@F@@B' and '+H@A@F@F@AD'.
TailBlocks ==
    { <<43, 65, 64, 65, 64, 70, 64, 70, 64, 64, 66>>,
      <<43, 72, 64, 65, 64, 70, 64, 70, 64, 65, 68>> }
\* Nominal year and day of processing: early January of the nominal year
\* (a non-leap and a leap one), and a day long after it.
Scenarios ==
    { <<2023, Ymd2Ord(2023, 1, 5)>>, <<2024, Ymd2Ord(2024, 1, 5)>>,
      <<2024, Ymd2Ord(2027, 1, 5)>> }

RECURSIVE SeqsUpTo(_, _)
SeqsUpTo(S, n) ==
    IF n = 0 THEN { <<>> }
    ELSE LET shorter == SeqsUpTo(S, n - 1)
         IN  shorter \cup {Append(q, e) : q \in shorter, e \in S}

RECURSIVE Flatten(_)
Flatten(ss) == IF ss = <<>> THEN <<>> ELSE ss[1] \o Flatten(Tail(ss))

\* '0C1' <blocks> '.': one block of every sensor, day, start time, interval
\* and run; and a block of day 1 and interval 6 followed by later blocks.
FullPayloads ==
    { <<48, 67, 49, Plus, sc>> \o df \o sf \o if \o run \o <<Dot>> :
        sc \in SensorChars, df \in DayFields, sf \in StartFields,
        if \in IntervalFields, run \in Runs }
    \cup
    { <<48, 67, 49, Plus, sc, 64, 65>> \o sf \o <<64, 70>> \o run \o Flatten(tail) \o <<Dot>> :
        sc \in SensorChars, sf \in StartFields, run \in Runs,
        tail \in SeqsUpTo(TailBlocks, MaxBlocks - 1) }

\* 'C1' <blocks>: the identifier lost its first character and the message
\* its end marker.
BarePayloads ==
    { <<67, 49, Plus, 65, 64, 65, 64, 70, 64, 70>> \o run \o Flatten(tail) :
        run \in Runs, tail \in SeqsUpTo(TailBlocks, MaxBlocks - 1) }

\* '0C1+^@A@F@F@@A' and '0C1+_@A@F@F@@A' (sensor indices 29 and 30), later
\* blocks and '.'.
SamplePayloads ==
    { <<48, 67, 49, Plus, sc, 64, 65, 64, 70, 64, 70, 64, 64, 65>>
          \o Flatten(tail) \o <<Dot>> :
        sc \in {94, 95}, tail \in SeqsUpTo(TailBlocks, MaxBlocks - 1) }

\* Payloads whose first block is short of its 8-character header:
\* '0C1+A@A@F', '0C1+A@A@F@', '0C1+A@A@F@.' and '0C1+A@A@F@+A@A@F@F@@B'.
ShortPayloads ==
    { <<48, 67, 49, Plus, 65, 64, 65, 64, 70>>,
      <<48, 67, 49, Plus, 65, 64, 65, 64, 70, 64>>,
      <<48, 67, 49, Plus, 65, 64, 65, 64, 70, 64, Dot>>,
      <<48, 67, 49, Plus, 65, 64, 65, 64, 70, 64,
        Plus, 65, 64, 65, 64, 70, 64, 70, 64, 64, 66>> }

Payloads == FullPayloads \cup BarePayloads \cup SamplePayloads \cup ShortPayloads

-----------------------------------------------------------------------------
(* process_pseudobinary_file, from the payload read to the value returned:  *)
(* the input file holds the payload alone, so that read_file_content has    *)
(* returned it with no station name.                                        *)

ProcIdle ==
    /\ pc = "idle" /\ data = <<>> /\ year = 0 /\ now = 0
    /\ decoded_data = <<>> /\ formatted_data = <<>> /\ block = NoBlock
    /\ emitted = <<>> /\ success = "none"
    /\ input_file = UnreadableFile /\ station_name = None

CodecIdle ==
    /\ cpc = "idle" /\ x = 0 /\ width = 0 /\ sixbit = <<>> /\ decimal = Num(0)

SinkIdle == csvfile = AbsentFile /\ calls = <<>> /\ ret = "none"

\* No run of decodeit: the file is where it was received.
MainIdle == no_archive = FALSE /\ location = "inbox" /\ moves = 0

\* No listener, no post-processing run and no run of decodeit.
ConcIdle ==
    /\ active_connections = 0 /\ max_connections = 0
    /\ listener = [pc |-> "stopped", request |-> 0, loaded |-> 0]
    /\ workers = <<>>
    /\ writers = <<>>
    /\ MainIdle

Init ==
    /\ pc = "start"
    /\ data \in Payloads
    /\ \E sc \in Scenarios : year = sc[1] /\ now = sc[2]
    /\ decoded_data = <<>> /\ formatted_data = <<>> /\ block = NoBlock
    /\ emitted = <<>> /\ success = "none"
    /\ csvfile = AbsentFile /\ calls = <<>> /\ ret = "none"
    /\ input_file = TextFile(data) /\ station_name = None
    /\ CodecIdle
    /\ ConcIdle

\* Lines 98-109.
DecodeStart ==
    /\ pc = "start"
    /\ data' = StripIdentifier(data)
    /\ decoded_data' = <<>>
    /\ pc' = "loop"
    /\ UNCHANGED <<year, now, formatted_data, block, emitted, success>>
    /\ UNCHANGED <<codecVars, sinkVars, fileVars, concVars>>

LoopCondition == Len(data) > 0 /\ data[1] /= Dot

\* Lines 112-191: one iteration; an exception leaves the function.
DecodeBlock ==
    /\ pc = "loop"
    /\ LoopCondition
    /\ LET b == Iteration(data, year, block)
       IN  /\ block' = b
           /\ IF b.raised
              THEN /\ pc' = "raised"
                   /\ decoded_data' = <<>>
                   /\ UNCHANGED <<data, emitted>>
              ELSE /\ pc' = "loop"
                   /\ decoded_data' = decoded_data \o
                        BlockSamples(b.sensor, b.date, b.time_start, b.interval,
                                     b.measurements)
                   /\ emitted' = emitted \o
                        BlockHistory(b.sensor, b.date, b.time_start, b.interval,
                                     b.measurements, b.n)
                   /\ data' = SliceFrom(data, NextBlockStart(data))
    /\ UNCHANGED <<year, now, formatted_data, success>>
    /\ UNCHANGED <<codecVars, sinkVars, fileVars, concVars>>

\* Lines 193 and 337-340: the list is returned; an empty one ends the run.
DecodeReturn ==
    /\ pc = "loop"
    /\ ~LoopCondition
    /\ IF decoded_data = <<>>
       THEN pc' = "done" /\ success' = FALSE
       ELSE pc' = "decoded" /\ UNCHANGED success
    /\ UNCHANGED <<data, year, now, decoded_data, formatted_data, block, emitted>>
    /\ UNCHANGED <<codecVars, sinkVars, fileVars, concVars>>

\* Lines 343-346: the entries are mutated in place and a sorted list returned.
FormatData ==
    /\ pc = "decoded"
    /\ formatted_data' = format_data_for_csv(decoded_data)
    /\ decoded_data' = MutatedEntries(decoded_data)
    /\ pc' = "formatted"
    /\ UNCHANGED <<data, year, now, block, emitted, success>>
    /\ UNCHANGED <<codecVars, sinkVars, fileVars, concVars>>

\* Lines 348-350.
WriteCsv ==
    /\ pc = "formatted"
    /\ LET w == write_to_csv(formatted_data, csvfile, TRUE)
       IN  /\ csvfile' = w.file
           /\ ret' = w.ret
           /\ success' = w.ret
           /\ calls' = Append(calls, [batch |-> formatted_data, append_mode |-> TRUE,
                                      before |-> csvfile])
    /\ pc' = "done"
    /\ UNCHANGED <<data, year, now, decoded_data, formatted_data, block, emitted>>
    /\ UNCHANGED <<codecVars, fileVars, concVars>>

Next == DecodeStart \/ DecodeBlock \/ DecodeReturn \/ FormatData \/ WriteCsv

Spec == Init /\ [][Next]_vars

-----------------------------------------------------------------------------
(* The six-bit codec on its own: groups are decoded by sixbit_to_decimal.   *)
(* The repository holds no encoder; encode is the one the round-trip law    *)
(* is stated with: x in 6L-bit two's complement, each 6-bit group v as the  *)
(* character of code v + 64, and '?' for v = 63.                            *)

Widths == {2, 3}

RECURSIVE Pow64(_)
Pow64(n) == IF n = 0 THEN 1 ELSE 64 * Pow64(n - 1)

encode(n, L) ==
    LET u == n % Pow64(L)
    IN  [k \in 1..L |->
            LET v == (u \div Pow64(L - k)) % 64
            IN  IF v = 63 THEN 63 ELSE v + 64]

\* The integers representable in the width of L characters.
Representable(L) == (-(Pow64(L) \div 2))..((Pow64(L) \div 2) - 1)

\* Runs of the missing-data character '/'.
MissingRuns == { <<47, 47>>, <<47, 47, 47>> }

InitCodec ==
    /\ \/ /\ width \in Widths
          /\ x \in Representable(width)
          /\ sixbit = encode(x, width)
          /\ cpc = "encoded"
       \/ /\ sixbit \in MissingRuns
          /\ width = Len(sixbit)
          /\ x = 0
          /\ cpc = "missing"
    /\ decimal = Num(0)
    /\ ProcIdle
    /\ SinkIdle
    /\ ConcIdle

\* Lines 22-47, on an encoded group.
DecodeGroup ==
    /\ cpc = "encoded"
    /\ decimal' = sixbit_to_decimal(sixbit)
    /\ cpc' = "decoded"
    /\ UNCHANGED <<x, width, sixbit>>
    /\ UNCHANGED <<procVars, sinkVars, fileVars, concVars>>

\* Lines 22-47, on a run of the missing-data character.
DecodeMissing ==
    /\ cpc = "missing"
    /\ decimal' = sixbit_to_decimal(sixbit)
    /\ cpc' = "decoded_missing"
    /\ UNCHANGED <<x, width, sixbit>>
    /\ UNCHANGED <<procVars, sinkVars, fileVars, concVars>>

NextCodec == DecodeGroup \/ DecodeMissing

SpecCodec == InitCodec /\ [][NextCodec]_vars

-----------------------------------------------------------------------------
(* The CSV sink on its own: write_to_csv called again and again on one      *)
(* destination, each call running to its end before the next.               *)

\* Two formatted records.
SinkRecords ==
    { FormatEntry([sensor |-> S_PRS, date |-> julian_to_date(1, 2024),
                   time |-> minutes_to_time(5),
                   measurement |-> Scaled(Num(1), S_PRS)]),
      FormatEntry([sensor |-> S_BAT, date |-> julian_to_date(1, 2024),
                   time |-> minutes_to_time(65),
                   measurement |-> Scaled(Num(124), S_BAT)]) }

\* Every batch of at most two records, the empty one included.
Batches == SeqsUpTo(SinkRecords, 2)

InitSink ==
    /\ csvfile \in {AbsentFile, EmptyFile}
    /\ calls = <<>>
    /\ ret = "none"
    /\ ProcIdle
    /\ CodecIdle
    /\ ConcIdle

\* Lines 276-316: one call.
CallWriteToCsv ==
    /\ Len(calls) < MaxWrites
    /\ \E batch \in Batches, append_mode \in BOOLEAN :
          LET w == write_to_csv(batch, csvfile, append_mode)
          IN  /\ csvfile' = w.file
              /\ ret' = w.ret
              /\ calls' = Append(calls, [batch |-> batch, append_mode |-> append_mode,
                                         before |-> csvfile])
    /\ UNCHANGED <<procVars, codecVars, fileVars, concVars>>

NextSink == CallWriteToCsv

SpecSink == InitSink /\ [][NextSink]_vars

-----------------------------------------------------------------------------
(* process_pseudobinary_file from its first statement: the input file is    *)
(* read, then decoded, formatted and written as above.                      *)

\* Payloads: '', '0C1.', '0C1+A@A@F@F@@A.', '0C1+H@A?|@|@AD@@A.',
\* '0C1+A@A@', '0C1+a@A@F@F@@A.' and '0C1+A//@F@F@@A.'.
FilePayloads ==
    { <<>>,
      <<48, 67, 49, Dot>>,
      <<48, 67, 49, Plus, 65, 64, 65, 64, 70, 64, 70, 64, 64, 65, Dot>>,
      <<48, 67, 49, Plus, 72, 64, 65, 63, 124, 64, 124, 64, 65, 68, 64, 64, 65, Dot>>,
      <<48, 67, 49, Plus, 65, 64, 65, 64>>,
      <<48, 67, 49, Plus, 97, 64, 65, 64, 70, 64, 70, 64, 64, 65, Dot>>,
      <<48, 67, 49, Plus, 65, 47, 47, 64, 70, 64, 70, 64, 64, 65, Dot>> }

\* What precedes the payload in the file: nothing, a space, a line break.
Leads == { <<>>, <<32>>, <<10>> }

\* What follows it: nothing, ' STATIONX.', ' ST..', '  ST. X', ' .', a line
\* break, ' ST' and a line break, a tab and 'ST'.
Trails ==
    { <<>>,
      <<32, 83, 84, 65, 84, 73, 79, 78, 88, Dot>>,
      <<32, 83, 84, Dot, Dot>>,
      <<32, 32, 83, 84, Dot, 32, 88>>,
      <<32, Dot>>,
      <<10>>,
      <<32, 83, 84, 10>>,
      <<9, 83, 84>> }

InputFiles ==
    {UnreadableFile} \cup
    { TextFile(lead \o p \o trail) : lead \in Leads, p \in FilePayloads, trail \in Trails }

InitFile ==
    /\ pc = "file"
    /\ input_file \in InputFiles
    /\ station_name = None
    /\ data = <<>>
    /\ \E sc \in Scenarios : year = sc[1] /\ now = sc[2]
    /\ decoded_data = <<>> /\ formatted_data = <<>> /\ block = NoBlock
    /\ emitted = <<>> /\ success = "none"
    /\ csvfile = AbsentFile /\ calls = <<>> /\ ret = "none"
    /\ CodecIdle
    /\ ConcIdle

\* Lines 330-333: the file is read; an unreadable one ends the run.
ReadFile ==
    /\ pc = "file"
    /\ LET r == read_file_content(input_file)
       IN  IF r.raised
           THEN pc' = "raised" /\ UNCHANGED <<data, station_name, success>>
           ELSE IF r.data = None
           THEN /\ pc' = "done"
                /\ success' = FALSE
                /\ station_name' = None
                /\ UNCHANGED data
           ELSE /\ pc' = "start"
                /\ data' = r.data
                /\ station_name' = r.station_name
                /\ UNCHANGED success
    /\ UNCHANGED <<year, now, decoded_data, formatted_data, block, emitted, input_file>>
    /\ UNCHANGED <<codecVars, sinkVars, concVars>>

NextFile ==
    ReadFile \/ DecodeStart \/ DecodeBlock \/ DecodeReturn \/ FormatData \/ WriteCsv

SpecFile == InitFile /\ [][NextFile]_vars

-----------------------------------------------------------------------------
(* ThreadedSocketServer.  The thread of serve_forever takes each connection *)
(* through verify_request and, when it is accepted, process_request, which  *)
(* ThreadingMixIn runs as a new thread calling finish_request; finish_      *)
(* request of SocketServer decrements the counter and then constructs the   *)
(* handler, which runs handle().  The counter is a plain attribute: "+= 1"  *)
(* and "-= 1" are a read followed by a write, and threads interleave        *)
(* between the two.                                                         *)

MaxRequests == 3     \* connections made to the listener

Requests == 1..MaxRequests

\* --max-connections of the listen command.
ConnectionLimits == {1, 2}

IdleListener == [pc |-> "serve", request |-> 0, loaded |-> 0]

\* What no step of the listener touches.
offServer == <<procVars, codecVars, sinkVars, fileVars, writers, mainVars>>

InitServer ==
    /\ active_connections = 0
    /\ max_connections \in ConnectionLimits
    /\ listener = IdleListener
    /\ workers = [r \in Requests |-> [pc |-> "unconnected", loaded |-> 0]]
    /\ writers = <<>>
    /\ ProcIdle /\ CodecIdle /\ SinkIdle /\ MainIdle

\* serve_forever: the next connection is taken and verify_request entered.
GetRequest(r) ==
    /\ listener.pc = "serve"
    /\ workers[r].pc = "unconnected"
    /\ listener' = [pc |-> "verify", request |-> r, loaded |-> 0]
    /\ workers' = [workers EXCEPT ![r].pc = "connected"]
    /\ UNCHANGED <<active_connections, max_connections>>
    /\ UNCHANGED offServer

\* Lines 141-143: the limit test; a refused request is shut down.
VerifyRequest ==
    /\ listener.pc = "verify"
    /\ IF active_connections >= max_connections
       THEN /\ listener' = IdleListener
            /\ workers' = [workers EXCEPT ![listener.request].pc = "rejected"]
       ELSE /\ listener' = [listener EXCEPT !.pc = "increment"]
            /\ UNCHANGED workers
    /\ UNCHANGED <<active_connections, max_connections>>
    /\ UNCHANGED offServer

\* Line 145, the read of "+= 1".
IncrementLoad ==
    /\ listener.pc = "increment"
    /\ listener' = [listener EXCEPT !.pc = "store", !.loaded = active_connections]
    /\ UNCHANGED <<active_connections, max_connections, workers>>
    /\ UNCHANGED offServer

\* Lines 145-146, the write of "+= 1"; the accepted request is handed to a
\* new thread.
IncrementStore ==
    /\ listener.pc = "store"
    /\ active_connections' = listener.loaded + 1
    /\ workers' = [workers EXCEPT ![listener.request].pc = "finish_request"]
    /\ listener' = IdleListener
    /\ UNCHANGED max_connections
    /\ UNCHANGED offServer

\* Line 150, the read of "-= 1".
DecrementLoad(r) ==
    /\ workers[r].pc = "finish_request"
    /\ workers' = [workers EXCEPT ![r] = [pc |-> "store", loaded |-> active_connections]]
    /\ UNCHANGED <<active_connections, max_connections, listener>>
    /\ UNCHANGED offServer

\* Lines 150-151, the write of "-= 1"; the handler is constructed and its
\* handle() begins.
DecrementStore(r) ==
    /\ workers[r].pc = "store"
    /\ active_connections' = workers[r].loaded - 1
    /\ workers' = [workers EXCEPT ![r].pc = "handle"]
    /\ UNCHANGED <<max_connections, listener>>
    /\ UNCHANGED offServer

\* Lines 56-102: handle() returns.
HandleReturn(r) ==
    /\ workers[r].pc = "handle"
    /\ workers' = [workers EXCEPT ![r].pc = "closed"]
    /\ UNCHANGED <<active_connections, max_connections, listener>>
    /\ UNCHANGED offServer

NextServer ==
    \/ \E r \in Requests : GetRequest(r)
    \/ VerifyRequest
    \/ IncrementLoad
    \/ IncrementStore
    \/ \E r \in Requests : DecrementLoad(r)
    \/ \E r \in Requests : DecrementStore(r)
    \/ \E r \in Requests : HandleReturn(r)

SpecServer == InitServer /\ [][NextServer]_vars

-----------------------------------------------------------------------------
(* Two handlers of the threaded listener run their post-processing at the   *)
(* same time (server.py lines 77-95, no lock), and both runs of decodeit    *)
(* reach write_to_csv in append mode on the CSV of the same station         *)
(* (decodeit.py lines 160-183).  write_to_csv is taken statement by         *)
(* statement: the existence test, the header test, the open, and the close  *)
(* that flushes the buffered header and rows in one write.  A file opened   *)
(* 'w' is truncated and written from its start; a file opened 'a' is        *)
(* written at its end.                                                      *)

Writers == {1, 2}

\* Formatted records of January 1, 2024 whose CSV rows have one length.
WriterRecord(sensor, minutes, value) ==
    FormatEntry([sensor |-> sensor, date |-> julian_to_date(1, 2024),
                 time |-> minutes_to_time(minutes),
                 measurement |-> Scaled(Num(value), sensor)])

\* The batches a run may hold: one or two records, other than the other
\* run's.
WriterBatches(w) ==
    IF w = 1
    THEN { <<WriterRecord(S_PRS, 5, 1)>>,
           <<WriterRecord(S_PRS, 65, 2), WriterRecord(S_PRS, 5, 1)>> }
    ELSE { <<WriterRecord(S_RAD, 5, 3)>>,
           <<WriterRecord(S_RAD, 65, 4), WriterRecord(S_RAD, 5, 3)>> }

\* A file holding the header and one row of an earlier run.
WrittenFile ==
    [exists |-> TRUE,
     lines |-> <<HeaderLine, CsvRow(WriterRecord(S_BAT, 5, 124))>>]

\* What no step of a run touches.
offWriters == <<procVars, codecVars, fileVars, serverVars, mainVars, calls, ret>>

InitWriters ==
    /\ csvfile \in {AbsentFile, EmptyFile, WrittenFile}
    /\ writers \in [Writers -> [pc : {"exists"}, data : WriterBatches(1) \cup WriterBatches(2),
                               file_exists : {FALSE}, has_header : {FALSE},
                               mode : {"none"}, buffer : {<<>>}]]
    /\ \A w \in Writers : writers[w].data \in WriterBatches(w)
    /\ calls = <<>> /\ ret = "none"
    /\ active_connections = 0 /\ max_connections = 0
    /\ listener = [pc |-> "stopped", request |-> 0, loaded |-> 0]
    /\ workers = <<>>
    /\ ProcIdle /\ CodecIdle /\ MainIdle

\* Lines 280-287: the empty-batch return and os.path.exists.
TestExists(w) ==
    /\ writers[w].pc = "exists"
    /\ writers' = [writers EXCEPT
                     ![w].file_exists = csvfile.exists,
                     ![w].pc = IF NoData(writers[w].data) THEN "done"
                               ELSE IF csvfile.exists THEN "header" ELSE "open"]
    /\ UNCHANGED csvfile
    /\ UNCHANGED offWriters

\* Lines 287-294: the first line is read.
TestHeader(w) ==
    /\ writers[w].pc = "header"
    /\ writers' = [writers EXCEPT ![w].has_header = HasHeader(csvfile),
                                  ![w].pc = "open"]
    /\ UNCHANGED csvfile
    /\ UNCHANGED offWriters

\* Lines 298-309: the open, 'a' or 'w', and the header and rows handed to
\* the buffered writer.
OpenAndBuffer(w) ==
    /\ writers[w].pc = "open"
    /\ LET mode == IF writers[w].file_exists THEN "a" ELSE "w"
           header == IF WritesHeader(writers[w].file_exists, writers[w].has_header)
                     THEN <<HeaderLine>> ELSE <<>>
       IN  /\ writers' = [writers EXCEPT ![w].mode = mode,
                                         ![w].buffer = header \o CsvRows(writers[w].data),
                                         ![w].pc = "close"]
           /\ csvfile' = [exists |-> TRUE,
                          lines |-> IF mode = "w" THEN <<>> ELSE csvfile.lines]
    /\ UNCHANGED offWriters

\* Line 309, the end of the with block: the buffer is written and the file
\* closed.
FlushAndClose(w) ==
    /\ writers[w].pc = "close"
    /\ LET buffer == writers[w].buffer
       IN  csvfile' = [exists |-> TRUE,
                       lines |-> IF writers[w].mode = "a"
                                 THEN csvfile.lines \o buffer
                                 ELSE buffer \o SubSeq(csvfile.lines, Len(buffer) + 1,
                                                       Len(csvfile.lines))]
    /\ writers' = [writers EXCEPT ![w].pc = "done"]
    /\ UNCHANGED offWriters

NextWriters ==
    \/ \E w \in Writers : TestExists(w)
    \/ \E w \in Writers : TestHeader(w)
    \/ \E w \in Writers : OpenAndBuffer(w)
    \/ \E w \in Writers : FlushAndClose(w)

SpecWriters == InitWriters /\ [][NextWriters]_vars

-----------------------------------------------------------------------------
(* decodeit: main run on one input file.  The file is read, decoded,        *)
(* formatted and written by the decoder as above, and moved according to    *)
(* the outcome.  The data directory is writable and holds no file of the    *)
(* same name, so every shutil.move that is called succeeds.                 *)

\* The input files: those above, an unreadable file that is not empty, a file
\* that is not UTF-8, and '0C1+A@A@F@F@@A. S/T' whose station names a
\* directory that does not exist.
DecodeitFiles ==
    InputFiles \cup
    { [readable |-> FALSE, content |-> <<48, 67, 49, Dot>>],
      TextFile(<<255, 48, 67, 49, Dot>>),
      TextFile(<<48, 67, 49, Plus, 65, 64, 65, 64, 70, 64, 70, 64, 64, 65, Dot,
                 32, 83, 47, 84>>) }

\* Lines 80-107: the file, if still at filepath, goes to error/.
move_to_error(loc, n) ==
    IF loc /= "inbox"
    THEN [location |-> loc, moves |-> n, ret |-> FALSE]
    ELSE [location |-> "error", moves |-> n + 1, ret |-> TRUE]

\* Lines 28-77: the file, if still at filepath, goes to archive/<day>/.
archive_file(loc, n) ==
    IF loc /= "inbox"
    THEN [location |-> loc, moves |-> n, ret |-> FALSE]
    ELSE [location |-> "archive", moves |-> n + 1, ret |-> TRUE]

InitDecodeit ==
    /\ pc = "main"
    /\ input_file \in DecodeitFiles
    /\ no_archive \in BOOLEAN
    /\ location \in {"inbox", "missing"}
    /\ location = "missing" => (input_file = UnreadableFile /\ no_archive = FALSE)
    /\ moves = 0
    /\ station_name = None
    /\ data = <<>>
    /\ \E sc \in Scenarios :
          /\ sc[2] \in Ymd2Ord(sc[1], 1, 1) .. Ymd2Ord(sc[1], 12, 31)
          /\ year = sc[1] /\ now = sc[2]
    /\ decoded_data = <<>> /\ formatted_data = <<>> /\ block = NoBlock
    /\ emitted = <<>> /\ success = "none"
    /\ csvfile \in {AbsentFile, EmptyFile} /\ calls = <<>> /\ ret = "none"
    /\ CodecIdle
    /\ active_connections = 0 /\ max_connections = 0
    /\ listener = [pc |-> "stopped", request |-> 0, loaded |-> 0]
    /\ workers = <<>>
    /\ writers = <<>>

\* Lines 122-144: a missing file ends the run, an empty one goes to empty/.
CheckInput ==
    /\ pc = "main"
    /\ IF location /= "inbox"
       THEN pc' = "exit 1" /\ UNCHANGED <<location, moves>>
       ELSE IF Len(input_file.content) = 0
       THEN /\ location' = "empty"
            /\ moves' = moves + 1
            /\ pc' = "exit 0"
       ELSE pc' = "file" /\ UNCHANGED <<location, moves>>
    /\ UNCHANGED <<data, year, now, decoded_data, formatted_data, block, emitted,
                   success, no_archive>>
    /\ UNCHANGED <<codecVars, sinkVars, fileVars, serverVars, writers>>

\* Lines 148-166 and 200-203: the file is read.  UnicodeDecodeError is a
\* ValueError and is handled by the except clause of main; IndexError is
\* not among the exceptions that clause names.
MainRead ==
    /\ pc = "file"
    /\ LET r == read_file_content(input_file)
           undecodable == input_file.readable /\
                          \E i \in 1..Len(input_file.content) :
                              input_file.content[i] > 127
           m == move_to_error(location, moves)
       IN  IF undecodable \/ (~r.raised /\ r.data = None)
           THEN /\ location' = m.location
                /\ moves' = m.moves
                /\ pc' = "exit 1"
                /\ UNCHANGED <<data, station_name>>
           ELSE IF r.raised
           THEN pc' = "raised" /\ UNCHANGED <<data, station_name, location, moves>>
           ELSE /\ pc' = "start"
                /\ data' = r.data
                /\ station_name' = r.station_name
                /\ UNCHANGED <<location, moves>>
    /\ UNCHANGED <<year, now, decoded_data, formatted_data, block, emitted,
                   success, input_file, no_archive>>
    /\ UNCHANGED <<codecVars, sinkVars, serverVars, writers>>

\* Lines 169-173: the list is returned; an empty one sends the file to error/.
MainDecoded ==
    /\ pc = "loop"
    /\ ~LoopCondition
    /\ LET m == move_to_error(location, moves)
       IN  IF decoded_data = <<>>
           THEN /\ location' = m.location
                /\ moves' = m.moves
                /\ pc' = "exit 1"
           ELSE pc' = "decoded" /\ UNCHANGED <<location, moves>>
    /\ UNCHANGED <<data, year, now, decoded_data, formatted_data, block, emitted,
                   success, no_archive>>
    /\ UNCHANGED <<codecVars, sinkVars, fileVars, serverVars, writers>>

\* Lines 177-198: the records are appended to '<station>_<year>.csv' in the
\* working directory, which open() cannot create when the station name holds
\* a '/'; the file is archived after a write that succeeded and goes to
\* error/ after one that failed.
MainWrite ==
    /\ pc = "formatted"
    /\ LET open_fails == \E i \in 1..Len(station_name) : station_name[i] = 47
           w == IF open_fails /\ ~NoData(formatted_data)
                THEN [file |-> csvfile, ret |-> FALSE]
                ELSE write_to_csv(formatted_data, csvfile, TRUE)
           e == move_to_error(location, moves)
           a == archive_file(location, moves)
       IN  IF formatted_data = <<>>
           THEN /\ location' = e.location
                /\ moves' = e.moves
                /\ pc' = "exit 1"
                /\ UNCHANGED <<sinkVars, success>>
           ELSE /\ csvfile' = w.file
                /\ ret' = w.ret
                /\ success' = w.ret
                /\ calls' = Append(calls, [batch |-> formatted_data,
                                           append_mode |-> TRUE, before |-> csvfile])
                /\ IF ~w.ret
                   THEN /\ location' = e.location
                        /\ moves' = e.moves
                        /\ pc' = "exit 1"
                   ELSE /\ pc' = "exit 0"
                        /\ IF no_archive
                           THEN UNCHANGED <<location, moves>>
                           ELSE location' = a.location /\ moves' = a.moves
    /\ UNCHANGED <<data, year, now, decoded_data, formatted_data, block, emitted,
                   no_archive>>
    /\ UNCHANGED <<codecVars, fileVars, serverVars, writers>>

NextDecodeit ==
    CheckInput \/ MainRead \/ DecodeStart \/ DecodeBlock \/ MainDecoded
        \/ FormatData \/ MainWrite

SpecDecodeit == InitDecodeit /\ [][NextDecodeit]_vars

-----------------------------------------------------------------------------
(* Properties.                                                              *)

Formatted == pc \in {"formatted", "done"} /\ formatted_data /= <<>>

\* The block loop has run an iteration to its end.
BlockDecoded == block.n > 0 /\ ~block.raised

\* C1: if the sensor index of a block (its second character minus 'A') lies
\* outside 0..31, the decode of the whole message fails and no record of
\* the message is produced.
C1_BadIndexFailsDecode ==
    (block.n > 0 /\ block.measurement_index \notin 0..31)
        => (pc = "raised" /\ decoded_data = <<>>)

\* 'YYYY-MM-DD HH:MM:SS+00:00' naming a calendar day and a time of day.
ValidTimestamp(t) ==
    /\ Len(t) = 25
    /\ \A i \in {1, 2, 3, 4, 6, 7, 9, 10, 12, 13, 15, 16, 18, 19} : IsDigit(t[i])
    /\ t[5] = Minus /\ t[8] = Minus /\ t[11] = 32
    /\ t[14] = Colon /\ t[17] = Colon
    /\ SubSeq(t, 20, 25) = UtcSuffix
    /\ LET y == ParseInt(SubSeq(t, 1, 4))
           m == ParseInt(SubSeq(t, 6, 7))
           d == ParseInt(SubSeq(t, 9, 10))
       IN  /\ m \in 1..12
           /\ d >= 1
           /\ d <= DaysInMonth(y, m)
    /\ ParseInt(SubSeq(t, 12, 13)) \in 0..23
    /\ ParseInt(SubSeq(t, 15, 16)) \in 0..59
    /\ ParseInt(SubSeq(t, 18, 19)) \in 0..59

\* C2: every record returned by format_data_for_csv has a timestamp that is
\* a valid calendar date-time whose hour lies in 0..23.
C2_TimestampValid ==
    Formatted => \A i \in 1..Len(formatted_data) : ValidTimestamp(formatted_data[i].time)

\* C3: a measurement run of n characters yields exactly floor(n / 3)
\* measurements: a trailing group of 1 or 2 characters is ignored.
C3_FloorOfThirds ==
    BlockDecoded => Len(block.measurements) = Len(block.measurements_str) \div 3

\* C4: round trip of the six-bit codec: for L in {2, 3} and every x
\* representable in 6L bits, sixbit_to_decimal(encode(x)) = x.
C4_RoundTrip == cpc = "decoded" => decimal = Num(x)

\* C4 witness: a negative three-character value and its round trip.
C4_Witness ==
    cpc = "decoded" /\ width = 3 /\ x = -131072 /\ decimal = Num(x)

\* C5: sixbit_to_decimal returns the missing result, never a number, for
\* every input made only of the missing-data character: '///' and '//'.
C5_MissingRunsAreMissing == cpc = "decoded_missing" => decimal.kind = "nan"

\* An optional '-', digits, and optionally a '.' followed by digits.
IsDecimalNumeral(s) ==
    LET body == IF Len(s) > 0 /\ s[1] = Minus THEN Tail(s) ELSE s
        parts == Split(body, Dot)
        AllDigits(q) == Len(q) > 0 /\ \A i \in 1..Len(q) : IsDigit(q[i])
    IN  /\ Len(parts) \in {1, 2}
        /\ \A k \in 1..Len(parts) : AllDigits(parts[k])

\* C6: the data field of every record returned by format_data_for_csv is a
\* fixed-precision decimal numeral, never not-a-number text.
C6_DataIsDecimal ==
    Formatted => \A i \in 1..Len(formatted_data) : IsDecimalNumeral(formatted_data[i].data)

AppendOnlyFromAbsent ==
    /\ calls /= <<>>
    /\ calls[1].before = AbsentFile
    /\ \A i \in 1..Len(calls) : calls[i].batch /= <<>> /\ calls[i].append_mode

RowsOfCalls == Flatten([i \in 1..Len(calls) |-> CsvRows(calls[i].batch)])

\* C7: starting from an absent destination, after any sequence of
\* write_to_csv calls with non-empty batches in append mode the file holds
\* exactly one header row, as its first line, followed by the rows of every
\* batch in call order.
C7_SingleHeader ==
    AppendOnlyFromAbsent =>
        /\ csvfile.exists
        /\ csvfile.lines = <<HeaderLine>> \o RowsOfCalls
        /\ Cardinality({i \in 1..Len(csvfile.lines) : csvfile.lines[i] = HeaderLine}) = 1

\* C7 witness: the same batch of two records written twice in append mode.
C7_Witness ==
    /\ AppendOnlyFromAbsent
    /\ Len(calls) = 2
    /\ calls[1].batch = calls[2].batch
    /\ Len(calls[1].batch) = 2
    /\ Len(csvfile.lines) = 5

\* C8: write_to_csv called with zero records returns failure and leaves the
\* destination unchanged, absent or existing, in append and overwrite mode.
C8_EmptyBatchNoOp ==
    (calls /= <<>> /\ calls[Len(calls)].batch = <<>>)
        => (ret = FALSE /\ csvfile = calls[Len(calls)].before)

\* C8 witness: an empty batch in overwrite mode on a file that holds rows.
C8_Witness ==
    /\ calls /= <<>>
    /\ calls[Len(calls)].batch = <<>>
    /\ ~calls[Len(calls)].append_mode
    /\ calls[Len(calls)].before.exists
    /\ Len(calls[Len(calls)].before.lines) > 1
    /\ csvfile = calls[Len(calls)].before

\* C9: year-ambiguity rule: when the date computed with the nominal year is
\* strictly after the processing instant and the Julian day is >= 365, every
\* sample of the block carries the month and day of the nominal-year date
\* with the year (nominal year - 1); otherwise the nominal-year date.
C9_YearRule ==
    BlockDecoded =>
        LET nominal == julian_to_date(block.day, year)
            expected == IF block.date_datetime > now /\ block.day >= 365
                        THEN SubSeq(nominal, 1, 6) \o FmtInt(year - 1, 4)
                        ELSE nominal
        IN  \A i \in 1..Len(emitted) :
                emitted[i].block = block.n => emitted[i].date = expected

\* 'mm/dd/YYYY' as <<year, month, day>>
ParseMDY(s) ==
    <<ParseInt(SubSeq(s, 7, 10)), ParseInt(SubSeq(s, 1, 2)), ParseInt(SubSeq(s, 4, 5))>>

\* The calendar day after <<year, month, day>>.
DayAfter(t) ==
    IF t[3] < DaysInMonth(t[1], t[2]) THEN <<t[1], t[2], t[3] + 1>>
    ELSE IF t[2] < 12 THEN <<t[1], t[2] + 1, 1>>
    ELSE <<t[1] + 1, 1, 1>>

\* 'YYYY-MM-DD hh:mm:00+00:00'
Timestamp(t, hh, mm) ==
    FmtInt(t[1], 4) \o <<Minus>> \o FmtInt(t[2], 2) \o <<Minus>> \o FmtInt(t[3], 2)
        \o <<32>> \o FmtInt(hh, 2) \o <<Colon>> \o FmtInt(mm, 2)
        \o <<Colon, 48, 48>> \o UtcSuffix

\* C10: a raw sample whose minute offset is in 1440..1499 is formatted with
\* the date advanced by exactly one calendar day and the time 00:MM:00.
C10_Hour24RollsForward ==
    Formatted =>
        \A i \in 1..Len(emitted) :
            emitted[i].minutes \in 1440..1499 =>
                /\ decoded_data[i].time =
                       Timestamp(DayAfter(ParseMDY(emitted[i].date)), 0,
                                 emitted[i].minutes - 1440)
                /\ \E j \in 1..Len(formatted_data) : formatted_data[j] = decoded_data[i]

\* C10 witness: a sample of December 31 at minute 1494 (24:54), rolled into
\* January 1 of the next year.
C10_Witness ==
    /\ Formatted
    /\ \E i \in 1..Len(emitted) :
          /\ emitted[i].minutes = 1494
          /\ SubSeq(emitted[i].date, 1, 5) = <<49, 50, 47, 51, 49>>
          /\ SubSeq(decoded_data[i].time, 5, 19) =
                 <<Minus, 48, 49, Minus, 48, 49, 32, 48, 48, Colon, 53, 52, Colon, 48, 48>>

\* The instant of a sample, in minutes: its block date plus its signed
\* minute offset.
Instant(h) == StrpMDY(h.date) * 1440 + h.minutes

\* The sort key of every formatted entry beside the instant of its sample.
KeyedInstants ==
    [i \in 1..Len(emitted) |->
        [time |-> decoded_data[i].time, instant |-> Instant(emitted[i])]]

\* C11: the batch returned by format_data_for_csv is ordered most recent
\* first by the instant of each sample (block date plus signed minute
\* offset): the descending order of the timestamp text is the descending
\* chronological order.
C11_MostRecentFirst ==
    Formatted =>
        LET s == SortDesc(KeyedInstants)
        IN  /\ Len(s) = Len(formatted_data)
            /\ \A k \in 1..Len(s) : s[k].time = formatted_data[k].time
            /\ \A k \in 1..(Len(s) - 1) : s[k].instant >= s[k + 1].instant

\* read_file_content has returned a payload.
FileRead == pc = "start"

\* st is the first whitespace-delimited token of rem with all its trailing
\* periods removed.
StationOf(st, rem) ==
    \E i \in 1..Len(rem), n \in 1..Len(rem) :
        /\ i + n - 1 <= Len(rem)
        /\ \A j \in 1..(i - 1) : rem[j] \in Whitespace
        /\ \A j \in i..(i + n - 1) : rem[j] \notin Whitespace
        /\ i + n > Len(rem) \/ rem[i + n] \in Whitespace
        /\ Len(st) <= n
        /\ SubSeq(rem, i, i + Len(st) - 1) = st
        /\ \A j \in (i + Len(st))..(i + n - 1) : rem[j] = Dot
        /\ st = <<>> \/ st[Len(st)] /= Dot

\* The payload and station name of a line split on its first space.
SplitOnFirstSpace(line, payload, station) ==
    LET k == Find(line, 32, 0)
    IN  IF k = -1
        THEN payload = line /\ station = None
        ELSE /\ payload = SubSeq(line, 1, k)
             /\ StationOf(station, SubSeq(line, k + 2, Len(line)))

\* C12 as stated: for every input line, read_file_content returns as payload
\* the substring before the first space of the line and as station name the
\* first whitespace-delimited token of the remainder with all trailing
\* periods removed; a line without a space yields the whole line as payload
\* and no station name.
C12_SplitsRawLine ==
    FileRead => SplitOnFirstSpace(input_file.content, data, station_name)

\* C12 amended: the line is first stripped of the whitespace around it; the
\* payload is the substring before the first space of the stripped line and
\* the station name the first whitespace-delimited token of its remainder
\* with all trailing periods removed; a stripped line without a space is
\* the payload and there is no station name; reading raises nothing.
C12_SplitsStrippedLine ==
    /\ FileRead =>
         LET line == input_file.content
         IN  \E a \in 1..(Len(line) + 1), b \in 0..Len(line) :
                /\ \A j \in 1..(a - 1) : line[j] \in Whitespace
                /\ \A j \in (b + 1)..Len(line) : line[j] \in Whitespace
                /\ a <= b => (line[a] \notin Whitespace /\ line[b] \notin Whitespace)
                /\ a > b => (a = Len(line) + 1 /\ b = Len(line))
                /\ SplitOnFirstSpace(SubSeq(line, a, b), data, station_name)
    /\ pc = "raised" => block.n > 0

\* C12 witness: ' 0C1. ST..' read as payload '0C1.' and station 'ST'.
C12_Witness ==
    /\ FileRead
    /\ input_file.content = <<32, 48, 67, 49, Dot, 32, 83, 84, Dot, Dot>>
    /\ data = <<48, 67, 49, Dot>>
    /\ station_name = <<83, 84>>

\* The block loop has ended and returned its list.
LoopEnded ==
    \/ pc = "decoded"
    \/ pc = "done" /\ calls = <<>> /\ block.n > 0 /\ ~block.raised

\* The file holds '0C1+' and a first block of a sample-count channel.
FirstBlockCountsSamples ==
    /\ StartsWith(input_file.content, <<48, 67, 49, Plus>>)
    /\ Len(input_file.content) >= 5
    /\ (input_file.content[5] - 65) \in {29, 30, 31}

\* The raw sample of the block '+A@A@F@F@@B' (PRS, day 1, start time 6, one
\* measurement 2) or '+H@A@F@F@AD' (BAT, day 1, start time 6, one
\* measurement 68), written out by hand.
ExpectedOfLaterBlock(b) ==
    [sensor |-> IF b[2] = 65 THEN <<80, 82, 83>> ELSE <<66, 65, 84>>,
     date |-> <<48, 49, 47, 48, 49, 47>> \o FmtInt(year, 4),
     time |-> <<48, 48, Colon, 48, 53, Colon, 48, 48>>,
     measurement |-> IF b[2] = 65 THEN [kind |-> "num", num |-> 2, div |-> 1000]
                     ELSE [kind |-> "num", num |-> 68, div |-> 10]]

\* The k-th of the n 11-character blocks that end the file before its '.'.
LaterBlock(k, n) ==
    LET c == input_file.content
    IN  SubSeq(c, Len(c) - 11 * (n - k + 1), Len(c) - 11 * (n - k) - 1)

\* C13: no record of a sample-count channel (sensor index 29, 30 or 31) is
\* emitted, and the block is consumed: the list returned holds exactly the
\* records of the blocks after it, as they are decoded on their own.
C13_SampleCountsNotEmitted ==
    (LoopEnded /\ FirstBlockCountsSamples) =>
        /\ \A i \in 1..Len(emitted) : emitted[i].block /= 1
        /\ decoded_data =
               [k \in 1..(block.n - 1) |-> ExpectedOfLaterBlock(LaterBlock(k, block.n - 1))]

\* C13 witness: a 'PRS samples' block with two groups of measurements,
\* followed by a BAT block whose record is the only one returned.
C13_Witness ==
    /\ LoopEnded /\ FirstBlockCountsSamples
    /\ input_file.content[5] = 96
    /\ \E i \in 1..Len(emitted) : emitted[i].block = 2
    /\ Len(input_file.content) >= 17
    /\ SubSeq(input_file.content, 12, 17) = <<47, 47, 47, 64, 64, 66>>
    /\ block.n = 2
    /\ Len(decoded_data) = 1
    /\ decoded_data[1].sensor = S_BAT

\* process_pseudobinary_file has returned.
Returned == pc = "done"

\* The input could not be read, or holds nothing but whitespace.
NoInput ==
    \/ ~input_file.readable
    \/ \A i \in 1..Len(input_file.content) : input_file.content[i] \in Whitespace

\* C14: the result returned for an unreadable or empty input ("no data"),
\* which is (False, None), is never the result returned for a readable,
\* non-empty input whose decode produced zero records.
C14_NoDataDistinct ==
    /\ (Returned /\ NoInput) => <<success, station_name>> = <<FALSE, None>>
    /\ (Returned /\ ~NoInput /\ decoded_data = <<>>)
           => <<success, station_name>> /= <<FALSE, None>>

\* C15: for every readable input line and every year,
\* process_pseudobinary_file ends by returning a (success, station) result:
\* no decode failure leaves it as an exception.
C15_NoEscapingException == input_file.readable => pc /= "raised"

\* The raw samples are in decoded_data as the loop appended them.
RawSamples == pc \in {"loop", "decoded"}

\* The integer of a two-character field: two 6-bit digits (a character up to
\* '?' is its code, any other its code minus 64) read as a 12-bit two's
\* complement.
FieldValue(field) ==
    LET digit(c) == IF c <= 63 THEN c ELSE c - 64
        u == 64 * digit(field[1]) + digit(field[2])
    IN  IF u >= 2048 THEN u - 4096 ELSE u

\* C17: for every block and every sample index i >= 0, the minute offset
\* passed to minutes_to_time is (decoded start time - 1) - i * (decoded
\* interval).  Block 1 of a file '0C1+...' has its start time in characters
\* 8-9 and its interval in characters 10-11; the later blocks of the inputs
\* have start time 6 and interval 6.
C17_StartCorrectedOnce ==
    (RawSamples /\ StartsWith(input_file.content, <<48, 67, 49, Plus>>)) =>
        \A i \in 1..Len(emitted) :
            LET start == IF emitted[i].block = 1
                         THEN FieldValue(SubSeq(input_file.content, 8, 9)) ELSE 6
                interval == IF emitted[i].block = 1
                            THEN FieldValue(SubSeq(input_file.content, 10, 11)) ELSE 6
                offset == (start - 1) - emitted[i].index * interval
            IN  /\ emitted[i].minutes = offset
                /\ decoded_data[i].time = minutes_to_time(offset)

\* C17 witness: start time 1501 and interval 60: sample 0 at minute 1500
\* and sample 1 at minute 1440.
C17_Witness ==
    /\ RawSamples
    /\ Len(emitted) >= 2
    /\ emitted[1].index = 0 /\ emitted[1].minutes = 1500
    /\ emitted[2].index = 1 /\ emitted[2].minutes = 1440
    /\ decoded_data[2].time = <<50, 52, Colon, 48, 48, Colon, 48, 48>>

\* The calendar day before <<year, month, day>>.
DayBefore(t) ==
    IF t[3] > 1 THEN <<t[1], t[2], t[3] - 1>>
    ELSE IF t[2] > 1 THEN <<t[1], t[2] - 1, DaysInMonth(t[1], t[2] - 1)>>
    ELSE <<t[1] - 1, 12, 31>>

\* C18: a raw sample whose minute offset is negative with magnitude m,
\* 0 < m < 1440, is formatted with the date one calendar day before its
\* date and the time of day 24:00 minus m minutes.
C18_NegativeOffsetPreviousDay ==
    Formatted =>
        \A i \in 1..Len(emitted) :
            (emitted[i].minutes < 0 /\ emitted[i].minutes > -1440) =>
                decoded_data[i].time =
                    Timestamp(DayBefore(ParseMDY(emitted[i].date)),
                              (1440 + emitted[i].minutes) \div 60,
                              (1440 + emitted[i].minutes) % 60)

\* d is what is left of e after at least one character was dropped in front.
ProperSuffix(d, e) ==
    Len(d) < Len(e) /\ d = SubSeq(e, Len(e) - Len(d) + 1, Len(e))

\* C19: the block loop terminates: an iteration runs only while the payload
\* is not empty and its current character is not '.', each completed
\* iteration moves the pointer forward by at least 8 characters or to the
\* end of the payload (never backward, never in place), and the loop is left
\* with its list exactly when the payload is empty or at '.'.
C19_LoopAdvances ==
    [][ pc = "loop" =>
          \/ /\ pc' = "loop"
             /\ data /= <<>> /\ data[1] /= Dot
             /\ ProperSuffix(data', data)
             /\ Len(data) - Len(data') >= 8 \/ data' = <<>>
          \/ /\ pc' = "raised"
             /\ data /= <<>> /\ data[1] /= Dot
          \/ /\ pc' \in {"decoded", "done"}
             /\ data = <<>> \/ data[1] = Dot
             /\ data' = data ]_vars

\* C19 witness: a payload without end marker, left after two iterations
\* with nothing remaining.
C19_Witness ==
    /\ pc = "decoded"
    /\ block.n = 2
    /\ data = <<>>
    /\ input_file.content[Len(input_file.content)] /= Dot

\* The requests whose handler is running: handle() has begun and not ended.
Handling == {r \in DOMAIN workers : workers[r].pc = "handle"}

\* C16: in the threaded listener the number of connections whose handler is
\* running is at most max_connections at every moment, and a connection is
\* never let through by verify_request while max_connections handlers are
\* running.
C16_HandlersBounded ==
    /\ Cardinality(Handling) <= max_connections
    /\ listener.pc = "increment" => Cardinality(Handling) < max_connections

\* Both post-processing runs have left write_to_csv.
BothWritten == writers /= <<>> /\ \A w \in Writers : writers[w].pc = "done"

\* C20: when two concurrent post-processing runs write batches to the same
\* station CSV, the file holds exactly one header row and every data row of
\* both batches, under every interleaving of the header test and the
\* open/write steps.
C20_OneHeaderAllRows ==
    BothWritten =>
        /\ Cardinality({i \in 1..Len(csvfile.lines) : csvfile.lines[i] = HeaderLine}) = 1
        /\ \A w \in Writers : \A k \in 1..Len(writers[w].data) :
              \E i \in 1..Len(csvfile.lines) :
                  csvfile.lines[i] = CsvRow(writers[w].data[k])

\* The requests accepted by verify_request whose finish_request has not yet
\* executed its decrement.
Pending == {r \in DOMAIN workers : workers[r].pc \in {"finish_request", "store"}}

\* C21: in every reachable state of the threaded listener active_connections
\* equals the number of requests accepted by verify_request whose
\* finish_request has not yet executed its decrement; it is never negative
\* and is 0 when no request is pending.
C21_CounterCountsPending ==
    /\ active_connections = Cardinality(Pending)
    /\ active_connections >= 0
    /\ (Pending = {} /\ listener.pc = "serve") => active_connections = 0

\* The run of decodeit has ended: by sys.exit, by returning, or by an
\* exception that main does not handle.
Ended == pc \in {"exit 0", "exit 1", "raised"}

\* C22: every run of decodeit on an existing input file without --no-archive
\* ends with the file moved exactly once out of its original location: to
\* empty/ if its size is 0, to archive/ if the CSV write succeeded, to
\* error/ for every other outcome; it is never moved twice.
C22_MovedExactlyOnce ==
    /\ moves <= 1
    /\ (Ended /\ location /= "missing" /\ ~no_archive) =>
          /\ moves = 1
          /\ location = IF Len(input_file.content) = 0 THEN "empty"
                        ELSE IF calls /= <<>> /\ ret THEN "archive"
                        ELSE "error"

=============================================================================
